---------------------------- MODULE Spec2Model ----------------------------
(***************************************************************************)
(* The log ingestion pipeline of claudeee (backend/internal/services,      *)
(* JSONLParser) and the tables of backend/internal/database it writes.     *)
(*                                                                         *)
(* Strings are sequences of atoms: an atom is a separator ("/", "-") or a  *)
(* word that holds no separator ("home", "backend", ".", "..").            *)
(* "/home/u" is << "/", "home", "/", "u" >>.  Timestamps are integers in   *)
(* units of ten minutes.                                                   *)
(***************************************************************************)
EXTENDS Integers, Sequences, FiniteSets, TLC

VARIABLES
    corpus,     \* the log files on disk, in the order a sync run visits them
    sessions,   \* rows of table sessions
    messages,   \* rows of table messages
    windows,    \* rows of table session_windows
    run,        \* per sync run in flight: its position in SyncAllLogs
    runsDone,   \* number of SyncAllLogs calls that have returned
    snap,       \* the store as the first completed run left it
    appended,   \* whether lines were appended to the corpus after a run
    now,        \* the wall clock: it advances between the starts of two runs
    env,        \* what the run meets: the root directory, the files, the store
    errlog,     \* the errors the run has printed
    completed   \* the uuids of the entries processLogEntry has returned nil for

vars == << corpus, sessions, messages, windows, run, runsDone, snap, appended, now,
           env, errlog, completed >>

-----------------------------------------------------------------------------
(* Bounds of the model *)

\* lines in the corpus at most, where the length of the lines varies
MaxLongLines == 2
\* atoms of a project directory name at most
MaxDirLen == 3
\* components of a working directory at most
MaxDepth == 3
\* lines in the corpus at most, where runs are interrupted
MaxCrashLines == 2
\* interruptions at most
MaxCrashes == 1
\* lines in the corpus at most, where lines lack fields
MaxFieldLines == 2
\* lines in the corpus at most, where files and store statements fail
MaxFaultLines == 2
\* store statements that fail at most, while the store can be reached
MaxFaults == 1

\* lines in the corpus at most
MaxLines == 3
\* lines in the corpus at most, where the sessions and directories vary
MaxSessionLines == 2
\* lines in the corpus at most, where two sync runs overlap
MaxConcLines == 2
\* SyncAllLogs calls at most
MaxRuns == 2

-----------------------------------------------------------------------------
(* Strings *)

Str(word) == << word >>

EmptyStr == << >>

HasPrefix(s, atom) == Len(s) > 0 /\ s[1] = atom

ReplaceAll(s, old, new) == [i \in 1..Len(s) |-> IF s[i] = old THEN new ELSE s[i]]

\* strings.Split(s, sep): the pieces between the separators, Count(sep)+1 of them
RECURSIVE Split(_, _)
Split(s, sep) ==
    IF \A i \in 1..Len(s) : s[i] # sep
    THEN << s >>
    ELSE LET k == CHOOSE i \in 1..Len(s) :
                      s[i] = sep /\ \A j \in 1..(i-1) : s[j] # sep
         IN  << SubSeq(s, 1, k-1) >> \o Split(SubSeq(s, k+1, Len(s)), sep)

\* the element stack filepath.Clean keeps while it reads the path
RECURSIVE CleanStack(_, _, _)
CleanStack(comps, stack, rooted) ==
    IF comps = << >> THEN stack
    ELSE LET c == Head(comps)
             rest == Tail(comps)
         IN  IF c = EmptyStr \/ c = Str(".")
             THEN CleanStack(rest, stack, rooted)
             ELSE IF c = Str("..")
             THEN IF Len(stack) > 0 /\ stack[Len(stack)] # Str("..")
                  THEN CleanStack(rest, SubSeq(stack, 1, Len(stack)-1), rooted)
                  ELSE IF rooted
                  THEN CleanStack(rest, stack, rooted)
                  ELSE CleanStack(rest, Append(stack, c), rooted)
             ELSE CleanStack(rest, Append(stack, c), rooted)

RECURSIVE JoinSlash(_)
JoinSlash(comps) ==
    IF comps = << >> THEN EmptyStr
    ELSE IF Len(comps) = 1 THEN comps[1]
    ELSE comps[1] \o << "/" >> \o JoinSlash(Tail(comps))

\* filepath.Clean
Clean(path) ==
    LET rooted == HasPrefix(path, "/")
        stack == CleanStack(Split(path, "/"), << >>, rooted)
    IN  IF path = EmptyStr THEN Str(".")
        ELSE IF rooted THEN << "/" >> \o JoinSlash(stack)
        ELSE IF stack = << >> THEN Str(".")
        ELSE JoinSlash(stack)

-----------------------------------------------------------------------------
(* Project resolution *)

commonSubdirs == { Str("frontend"), Str("backend"), Str("src"), Str("lib") }

Meaningful(part) == part # EmptyStr /\ part # Str(".") /\ part # Str("..")

\* convertProjectNameToPath as it would be if the leading "-" were replaced like
\* the others instead of being cut off
convertProjectNameToPathKeepFirst(projectName) ==
    IF HasPrefix(projectName, "-")
    THEN << "/" >> \o ReplaceAll(projectName, "-", "/")
    ELSE projectName

convertProjectNameToPath(projectName) ==
    IF HasPrefix(projectName, "-")
    THEN << "/" >> \o ReplaceAll(Tail(projectName), "-", "/")
    ELSE projectName

\* extractProjectNameFromCwd as it would be if the search for a parent started
\* at the root of the path
extractProjectNameFromCwdOutermost(cwd) ==
    IF cwd = EmptyStr THEN Str("unknown")
    ELSE
    LET parts == Split(Clean(cwd), "/")
        good == { i \in 1..Len(parts) : Meaningful(parts[i]) }
    IN  IF good = {} THEN Str("unknown")
        ELSE
        LET i == CHOOSE x \in good : \A y \in good : y <= x
            parents == { j \in 1..(i-1) :
                           Meaningful(parts[j]) /\ parts[j] \notin commonSubdirs }
        IN  IF parts[i] \in commonSubdirs /\ parents # {}
            THEN parts[CHOOSE x \in parents : \A y \in parents : x <= y]
            ELSE parts[i]

extractProjectNameFromCwd(cwd) ==
    IF cwd = EmptyStr THEN Str("unknown")
    ELSE
    LET parts == Split(Clean(cwd), "/")
        good == { i \in 1..Len(parts) : Meaningful(parts[i]) }
    IN  IF good = {} THEN Str("unknown")
        ELSE
        LET i == CHOOSE x \in good : \A y \in good : y <= x
            parents == { j \in 1..(i-1) :
                           Meaningful(parts[j]) /\ parts[j] \notin commonSubdirs }
        IN  IF parts[i] \in commonSubdirs /\ parents # {}
            THEN parts[CHOOSE x \in parents : \A y \in parents : y <= x]
            ELSE parts[i]

-----------------------------------------------------------------------------
(* Log lines and files *)

\* the fixed length of a usage window: five hours, in units of ten minutes
WindowLen == 30

\* the capacity parseJSONLFile gives the scanner's buffer, in megabytes
maxCapacity == 10

\* size is the length of the line in megabytes, rounded up
NoLine == [uuid |-> "", sessionId |-> "", cwd |-> EmptyStr, timestamp |-> 0,
           input |-> 0, output |-> 0, size |-> 1]

\* a line that decodes into a models.LogEntry
Entry(uuid, sessionId, cwd, timestamp, input, output) ==
    [kind |-> "entry", uuid |-> uuid, sessionId |-> sessionId, cwd |-> cwd,
     timestamp |-> timestamp, input |-> input, output |-> output, size |-> 1]

\* the line with another length
Sized(line, size) == [line EXCEPT !.size = size]

\* bufio.Scanner gives up (ErrTooLong) on a line that fills its buffer before
\* the end of the line is found
TooLong(line) == line.size >= maxCapacity

\* the zero time.Time, which json.Unmarshal leaves in an entry whose line has
\* no timestamp: long before every timestamp of a log
ZeroTime == 0 - 1000

\* a line json.Unmarshal rejects
BadLine == [kind |-> "bad"] @@ NoLine

\* a line that is empty once trimmed
BlankLine == [kind |-> "blank"] @@ NoLine

File(dir, lines) == [dir |-> dir, lines |-> lines]

RECURSIVE TotalLines(_)
TotalLines(files) ==
    IF files = << >> THEN 0 ELSE Len(Head(files).lines) + TotalLines(Tail(files))

SeqsUpTo(S, n) == UNION { [1..k -> S] : k \in 0..n }

-----------------------------------------------------------------------------
(* The store: one operator per statement the pipeline sends to it *)

Max(a, b) == IF a >= b THEN a ELSE b

RECURSIVE SumTokens(_)
SumTokens(ms) ==
    IF ms = {} THEN 0
    ELSE LET m == CHOOSE x \in ms : TRUE
         IN  m.input_tokens + m.output_tokens + SumTokens(ms \ {m})

\* CreateOrUpdateSession as it would be if every call rewrote the project fields
CreateOrUpdateSessionLastWins(S, sessionID, projectName, projectPath, timestamp) ==
    { s \in S : s.id # sessionID }
    \cup { [id |-> sessionID, project_name |-> projectName,
            project_path |-> projectPath, start_time |-> timestamp,
            end_time |-> timestamp, total_tokens |-> 0,
            message_count |-> 0, status |-> "active"] }

\* SessionService.CreateOrUpdateSession
CreateOrUpdateSession(S, sessionID, projectName, projectPath, timestamp) ==
    IF \E s \in S : s.id = sessionID
    THEN { IF s.id = sessionID
           THEN [s EXCEPT !.end_time = Max(@, timestamp)]
           ELSE s : s \in S }
    ELSE S \cup { [id |-> sessionID, project_name |-> projectName,
                   project_path |-> projectPath, start_time |-> timestamp,
                   end_time |-> timestamp, total_tokens |-> 0,
                   message_count |-> 0, status |-> "active"] }

\* the stored windows whose [start, end) holds the timestamp
Containing(W, timestamp) ==
    { w \in W : w.window_start <= timestamp /\ timestamp < w.window_end }

\* the window created last among the active ones
PrecedingActive(W) ==
    { w \in W : w.is_active /\ \A v \in W : v.is_active => v.id <= w.id }

\* createNewWindow as it would be if the preceding window were left active
createNewWindowKeepsActive(W, timestamp) ==
    W \cup { [id |-> Cardinality(W) + 1, window_start |-> timestamp,
              window_end |-> timestamp + WindowLen,
              reset_time |-> timestamp + WindowLen,
              total_tokens |-> 0, message_count |-> 0, session_count |-> 0,
              is_active |-> TRUE] }

\* a new window starting at the timestamp; the preceding active window is closed
\* when it has ended by then
createNewWindow(W, timestamp) ==
    { IF w \in PrecedingActive(W) /\ w.window_end <= timestamp
      THEN [w EXCEPT !.is_active = FALSE]
      ELSE w : w \in W }
    \cup { [id |-> Cardinality(W) + 1, window_start |-> timestamp,
            window_end |-> timestamp + WindowLen,
            reset_time |-> timestamp + WindowLen,
            total_tokens |-> 0, message_count |-> 0, session_count |-> 0,
            is_active |-> TRUE] }

\* GetOrCreateWindowForMessage as it would be if only active windows were
\* looked up
GetOrCreateWindowForMessageActiveOnly(W, timestamp) ==
    IF \E w \in Containing(W, timestamp) : w.is_active
    THEN { [windows |-> W, id |-> w.id] :
             w \in { x \in Containing(W, timestamp) : x.is_active } }
    ELSE { [windows |-> createNewWindow(W, timestamp), id |-> Cardinality(W) + 1] }

\* SessionWindowService.GetOrCreateWindowForMessage: every (table, window id) it
\* can leave.  The lookup names no order, so a timestamp that two stored windows
\* hold may be answered with either.  Lookup and creation are one statement: no
\* other run acts between them.
GetOrCreateWindowForMessage(W, timestamp) ==
    IF Containing(W, timestamp) # {}
    THEN { [windows |-> W, id |-> w.id] : w \in Containing(W, timestamp) }
    ELSE { [windows |-> createNewWindow(W, timestamp), id |-> Cardinality(W) + 1] }

\* UpdateWindowStats as it would be if the refreshed window were also ended at
\* its last message
UpdateWindowStatsShrinks(W, M, windowID) ==
    LET mine == { m \in M : m.session_window_id = windowID }
    IN  { IF w.id = windowID
          THEN [w EXCEPT !.total_tokens = SumTokens(mine),
                         !.message_count = Cardinality(mine),
                         !.session_count = Cardinality({ m.session_id : m \in mine }),
                         !.window_end = IF mine = {} THEN @
                                        ELSE 1 + CHOOSE t \in { m.timestamp : m \in mine } :
                                                   \A m \in mine : m.timestamp <= t]
          ELSE w : w \in W }

\* SessionWindowService.UpdateWindowStats
UpdateWindowStats(W, M, windowID) ==
    LET mine == { m \in M : m.session_window_id = windowID }
    IN  { IF w.id = windowID
          THEN [w EXCEPT !.total_tokens = SumTokens(mine),
                         !.message_count = Cardinality(mine),
                         !.session_count = Cardinality({ m.session_id : m \in mine })]
          ELSE w : w \in W }

\* TokenService.UpdateSessionTokens
UpdateSessionTokens(S, M, sessionID) ==
    LET mine == { m \in M : m.session_id = sessionID }
    IN  { IF s.id = sessionID
          THEN [s EXCEPT !.total_tokens = SumTokens(mine),
                         !.message_count = Cardinality(mine)]
          ELSE s : s \in S }

\* insertMessage as it would be with a plain INSERT into a table without a key
insertMessageAppend(M, message) ==
    M \cup { message @@ [created_at |-> now] }

\* INSERT OR REPLACE INTO messages: id is the primary key, created_at is the
\* time of the write
insertMessage(M, message) ==
    { m \in M : m.id # message.id } \cup { message @@ [created_at |-> now] }

-----------------------------------------------------------------------------
(* processLogEntry, statement by statement *)

actualProjectPath(entry, projectName) ==
    IF entry.cwd # EmptyStr THEN entry.cwd ELSE convertProjectNameToPath(projectName)

actualProjectName(entry, projectName) ==
    IF entry.cwd # EmptyStr THEN extractProjectNameFromCwd(entry.cwd) ELSE projectName

\* MessageOf as it would be if the usage block's output count were not copied
MessageOfNoOutput(entry, windowID) ==
    [id |-> entry.uuid, session_id |-> entry.sessionId,
     session_window_id |-> windowID,
     input_tokens |-> entry.input, output_tokens |-> 0,
     timestamp |-> entry.timestamp]

\* the models.Message built from the entry and the window it was given
MessageOf(entry, windowID) ==
    [id |-> entry.uuid, session_id |-> entry.sessionId,
     session_window_id |-> windowID,
     input_tokens |-> entry.input, output_tokens |-> entry.output,
     timestamp |-> entry.timestamp]

\* StatsTarget as it would be if the newest window were refreshed instead
StatsTargetLatest(windowID) == Cardinality(windows)

\* the window whose statistics processLogEntry refreshes after the insert
StatsTarget(windowID) == windowID

\* the session whose counters processLogEntry refreshes last
TokensTarget(entry) == entry.sessionId

\* processLogEntry run from its first statement to its last with no other run in
\* between: every store it can leave
processLogEntry(st, entry, projectName) ==
    LET S1 == CreateOrUpdateSession(st.sessions, entry.sessionId,
                  actualProjectName(entry, projectName),
                  actualProjectPath(entry, projectName), entry.timestamp)
    IN  { LET M1 == insertMessage(st.messages, MessageOf(entry, got.id))
              W1 == UpdateWindowStats(got.windows, M1, StatsTarget(got.id))
          IN  [sessions |-> UpdateSessionTokens(S1, M1, TokensTarget(entry)),
               messages |-> M1, windows |-> W1]
          : got \in GetOrCreateWindowForMessage(st.windows, entry.timestamp) }

\* the stores a whole file can leave, from each store of sts
RECURSIVE FileOutcomes(_, _, _)
FileOutcomes(sts, lines, projectName) ==
    IF lines = << >> THEN sts
    ELSE FileOutcomes(
             IF Head(lines).kind = "entry"
             THEN UNION { processLogEntry(st, Head(lines), projectName) : st \in sts }
             ELSE sts,
             Tail(lines), projectName)

\* the stores one uninterrupted sync run over the files can leave
RECURSIVE SyncOutcomes(_, _)
SyncOutcomes(sts, files) ==
    IF files = << >> THEN sts
    ELSE SyncOutcomes(FileOutcomes(sts, Head(files).lines, Head(files).dir),
                      Tail(files))

-----------------------------------------------------------------------------
(* Inputs *)

CwdBackend == << "/", "home", "/", "u", "/", "proj", "/", "backend" >>

CwdOther == << "/", "home", "/", "u", "/", "other" >>

DirProj == << "-", "home", "-", "u", "-", "proj" >>

DirScratch == << "scratch" >>

Uuids == { "m1", "m2" }

\* lines of one session whose timestamps fall in the same window (0 before 1), in
\* windows that overlap (1 before 0) and in windows that are apart (0 and 40)
TimeLines ==
    { Entry(u, "s1", CwdBackend, 0, 100, 50) : u \in Uuids }
    \cup { Entry(u, "s1", EmptyStr, 1, 20, 5) : u \in Uuids }
    \cup { Entry(u, "s1", CwdBackend, 40, 7, 3) : u \in Uuids }
    \cup { BadLine, BlankLine }

\* lines whose session and working directory vary; the uuid follows the timestamp
SessionLines ==
    { Entry(IF t = 0 THEN "m1" ELSE "m2", sid, cwd, t, 100, 50) :
        sid \in { "s1", "s2" }, cwd \in { CwdBackend, CwdOther, EmptyStr },
        t \in { 0, 1 } }

\* two log files of two project directories
SessionCorpora ==
    UNION { { << File(DirProj, SubSeq(ls, 1, k)),
                 File(DirScratch, SubSeq(ls, k+1, Len(ls))) >> : k \in 0..Len(ls) } :
            ls \in SeqsUpTo(SessionLines, MaxSessionLines) }

\* lines whose windows can never overlap: the timestamps are a window apart
ConcLines ==
    { Entry(u, "s1", CwdBackend, 0, 100, 50) : u \in Uuids }
    \cup { Entry(u, "s1", CwdBackend, 40, 20, 5) : u \in Uuids }
    \cup { BadLine }

ConcCorpora == { << File(DirProj, ls) >> : ls \in SeqsUpTo(ConcLines, MaxConcLines) }

TimeCorpora == { << File(DirProj, ls) >> : ls \in SeqsUpTo(TimeLines, MaxLines) }

\* a complete line, and lines that decode but lack the uuid, the session id or
\* the timestamp: json.Unmarshal leaves the zero value in the field
FieldLines ==
    { Entry("m1", "s1", CwdBackend, 0, 100, 50),
      Entry("", "s1", CwdBackend, 1, 20, 5),
      Entry("m2", "", CwdBackend, 1, 20, 5),
      Entry("m2", "s1", CwdBackend, ZeroTime, 20, 5) }

FieldCorpora == { << File(DirProj, ls) >> : ls \in SeqsUpTo(FieldLines, MaxFieldLines) }

\* lines with a uuid of their own each, whose timestamps fall in windows that
\* overlap (1 before 0) or are apart (40)
CrashLines ==
    { Entry("m1", "s1", CwdBackend, 1, 100, 50),
      Entry("m2", "s1", CwdBackend, 0, 20, 5),
      Entry("m3", "s2", CwdBackend, 40, 7, 3) }

CrashCorpora == { << File(DirProj, ls) >> : ls \in SeqsUpTo(CrashLines, MaxCrashLines) }

\* lines of 1 MB, of 9 MB and of 20 MB, each with a uuid of its own
LongLines ==
    { Entry("m1", "s1", CwdBackend, 0, 100, 50),
      Sized(Entry("m2", "s1", CwdBackend, 1, 20, 5), 9),
      Sized(Entry("m3", "s1", CwdBackend, 2, 7, 3), 20) }

\* two log files of one project directory
LongCorpora ==
    UNION { { << File(DirProj, SubSeq(ls, 1, k)),
                 File(DirProj, SubSeq(ls, k+1, Len(ls))) >> : k \in 0..Len(ls) } :
            ls \in SeqsUpTo(LongLines, MaxLongLines) }

\* project directory names: with and without a leading "-", with "-" inside,
\* doubled and trailing
DirNames == SeqsUpTo({ "-", "home", "proj" }, MaxDirLen) \ { EmptyStr }

\* one log file with one line without a working directory, in a project
\* directory whose name varies
DirCorpora ==
    { << File(dir, << Entry("m1", "s1", EmptyStr, 0, 100, 50) >>) >> : dir \in DirNames }

\* the components a working directory is made of: names, two of them generic,
\* the empty component of a doubled or trailing slash, "." and ".."
PathParts ==
    { Str("u"), Str("myproj"), Str("backend"), Str("lib"), EmptyStr, Str("."),
      Str("..") }

CwdExample ==
    << "/", "home", "/", "u", "/", "code", "/", "myproj", "/", "backend" >>

\* working directories, absolute and relative, of up to MaxDepth components
CwdPaths ==
    { CwdExample }
    \cup ({ JoinSlash(cs) : cs \in SeqsUpTo(PathParts, MaxDepth) } \ { EmptyStr })
    \cup { << "/" >> \o JoinSlash(cs) : cs \in SeqsUpTo(PathParts, MaxDepth) }

\* one log file with one line, whose working directory varies
ResolveCorpora ==
    { << File(DirProj, << Entry("m1", "s1", cwd, 0, 100, 50) >>) >> : cwd \in CwdPaths }

\* two lines of one session in one window
FaultLines ==
    { Entry("m1", "s1", CwdBackend, 0, 100, 50),
      Entry("m2", "s1", CwdBackend, 1, 20, 5) }

\* three log files: two of one project directory, one of another
FaultCorpora ==
    UNION { UNION { { << File(DirProj, SubSeq(ls, 1, j)),
                         File(DirProj, SubSeq(ls, j+1, k)),
                         File(DirScratch, SubSeq(ls, k+1, Len(ls))) >> :
                      j \in 0..k } : k \in 0..Len(ls) } :
            ls \in SeqsUpTo(FaultLines, MaxFaultLines) }

\* lines of a corpus in which some lines do not decode; the entries carry no
\* working directory and fall in two windows
MixedLines ==
    { Entry("m1", "s1", EmptyStr, 0, 100, 50),
      Entry("m2", "s1", EmptyStr, 40, 20, 5),
      BadLine }

\* two log files of two project directories
MixedCorpora ==
    UNION { { << File(DirProj, SubSeq(ls, 1, k)),
                 File(DirScratch, SubSeq(ls, k+1, Len(ls))) >> : k \in 0..Len(ls) } :
            ls \in SeqsUpTo(MixedLines, MaxFaultLines) }

-----------------------------------------------------------------------------
(* The sync run *)

RunIds == { 1, 2 }

\* ret is what the last SyncAllLogs call of the run returned
IdleRun == [pc |-> "idle", file |-> 0, line |-> 0, window |-> 0,
            lineCount |-> 0, processedCount |-> 0, parseErrors |-> 0,
            ret |-> "none"]

\* an environment in which nothing fails: the root directory can be listed, every
\* file can be opened and read, the store takes every statement, no interruption
NoFaults == [root |-> "ok", noOpen |-> {}, readFail |-> {}, store |-> "up",
             faults |-> 0, crashes |-> 0]

\* the environments of a run in which one thing fails: the root directory, one
\* file at its opening or at a read, the store as a whole, or single statements
FaultEnvs ==
    { [NoFaults EXCEPT !.root = x] : x \in { "missing", "unreadable" } }
    \cup { [NoFaults EXCEPT !.noOpen = { f }] : f \in 1..3 }
    \cup { [NoFaults EXCEPT !.readFail = { f }] : f \in 1..3 }
    \cup { [NoFaults EXCEPT !.store = "down"] }
    \cup { [NoFaults EXCEPT !.faults = MaxFaults] }

\* the environments of a run in which several things fail: a file that cannot
\* be opened and one that cannot be read to its end, with a store that is down
\* or that fails at single statements
MixedEnvs ==
    FaultEnvs
    \cup { [NoFaults EXCEPT !.noOpen = { 1 }, !.readFail = { 2 }, !.store = "down"],
           [NoFaults EXCEPT !.noOpen = { 1 }, !.readFail = { 2 }, !.faults = MaxFaults],
           [NoFaults EXCEPT !.noOpen = { 2 }, !.readFail = { 1 }, !.faults = MaxFaults] }

Store == [sessions |-> sessions, messages |-> messages, windows |-> windows]

EmptyStore == [sessions |-> {}, messages |-> {}, windows |-> {}]

\* a store without the write times of its messages
WithoutWriteTime(st) ==
    [st EXCEPT !.messages =
        { [f \in DOMAIN m \ { "created_at" } |-> m[f]] : m \in @ }]

InFlight == { r \in RunIds : run[r].pc # "idle" }

\* the line a run is processing, and the directory name of its file
CurLine(r) == corpus[run[r].file].lines[run[r].line]

CurDir(r) == corpus[run[r].file].dir

InitIn(corpora, envs) ==
    /\ corpus \in corpora
    /\ env \in envs
    /\ errlog = {}
    /\ completed = {}
    /\ sessions = {}
    /\ messages = {}
    /\ windows = {}
    /\ run = [r \in RunIds |-> IdleRun]
    /\ runsDone = 0
    /\ snap = {}
    /\ appended = FALSE
    /\ now = 0

InitOver(corpora) == InitIn(corpora, { NoFaults })

\* a resync request enters SyncAllLogs and takes the first file
SyncAllLogs(r) ==
    /\ run[r].pc = "idle"
    /\ runsDone + Cardinality(InFlight) < MaxRuns
    /\ env.root = "ok"
    /\ run' = [run EXCEPT ![r] = [IdleRun EXCEPT !.pc = "open", !.file = 1]]
    /\ now' = now + 1
    /\ UNCHANGED << corpus, sessions, messages, windows, runsDone, snap, appended, env, errlog, completed >>

\* the loops of SyncAllLogs and syncProjectLogs are over: return nil
SyncReturn(r) ==
    /\ run[r].pc = "open"
    /\ run[r].file > Len(corpus)
    /\ run' = [run EXCEPT ![r] = [IdleRun EXCEPT !.ret = "nil"]]
    /\ runsDone' = runsDone + 1
    /\ snap' = IF snap = {} THEN { Store } ELSE snap
    /\ UNCHANGED << corpus, sessions, messages, windows, appended, now, env, errlog, completed >>

\* parseJSONLFile as it would be if a file that an earlier run has read to its
\* end were skipped
parseJSONLFileOnce(r) ==
    /\ run[r].pc = "open"
    /\ run[r].file <= Len(corpus)
    /\ run[r].file \notin env.noOpen
    /\ run' = IF runsDone >= 1
              THEN [run EXCEPT ![r].file = @ + 1]
              ELSE [run EXCEPT ![r].pc = "scan", ![r].line = 0, ![r].lineCount = 0,
                               ![r].processedCount = 0, ![r].parseErrors = 0]
    /\ UNCHANGED << corpus, sessions, messages, windows, runsDone, snap, appended, now, env, errlog, completed >>

\* parseJSONLFile opens the next file and sets its counters to zero
parseJSONLFile(r) ==
    /\ run[r].pc = "open"
    /\ run[r].file <= Len(corpus)
    /\ run[r].file \notin env.noOpen
    /\ run' = [run EXCEPT ![r].pc = "scan", ![r].line = 0, ![r].lineCount = 0,
                          ![r].processedCount = 0, ![r].parseErrors = 0]
    /\ UNCHANGED << corpus, sessions, messages, windows, runsDone, snap, appended, now, env, errlog, completed >>

\* LineStep as it would be if a line that does not decode ended the file
LineStepAbort(rec, line) ==
    IF line.kind = "blank" THEN rec
    ELSE IF line.kind = "bad"
    THEN [rec EXCEPT !.parseErrors = @ + 1, !.pc = "open", !.file = @ + 1]
    ELSE [rec EXCEPT !.pc = "session"]

\* what the scanner loop does with a line before processLogEntry
LineStep(rec, line) ==
    IF line.kind = "blank" THEN rec
    ELSE IF line.kind = "bad" THEN [rec EXCEPT !.parseErrors = @ + 1]
    ELSE [rec EXCEPT !.pc = "session"]

\* scanner.Scan(): the next line, or the end of the file
Scan(r) ==
    /\ run[r].pc = "scan"
    /\ run[r].line < Len(corpus[run[r].file].lines)
          => ~TooLong(corpus[run[r].file].lines[run[r].line + 1])
    /\ run[r].line < Len(corpus[run[r].file].lines) \/ run[r].file \notin env.readFail
    /\ IF run[r].line < Len(corpus[run[r].file].lines)
       THEN run' = [run EXCEPT ![r] =
                LineStep([run[r] EXCEPT !.line = @ + 1, !.lineCount = @ + 1],
                         corpus[run[r].file].lines[run[r].line + 1])]
       ELSE run' = [run EXCEPT ![r].pc = "open", ![r].file = @ + 1]
    /\ UNCHANGED << corpus, sessions, messages, windows, runsDone, snap, appended, now, env, errlog, completed >>

processLogEntry_session(r) ==
    /\ run[r].pc = "session"
    /\ env.store = "up"
    /\ sessions' = CreateOrUpdateSession(sessions, CurLine(r).sessionId,
                       actualProjectName(CurLine(r), CurDir(r)),
                       actualProjectPath(CurLine(r), CurDir(r)),
                       CurLine(r).timestamp)
    /\ run' = [run EXCEPT ![r].pc = "window"]
    /\ UNCHANGED << corpus, messages, windows, runsDone, snap, appended, now, env, errlog, completed >>

processLogEntry_window(r) ==
    /\ run[r].pc = "window"
    /\ env.store = "up"
    /\ \E got \in GetOrCreateWindowForMessage(windows, CurLine(r).timestamp) :
          /\ windows' = got.windows
          /\ run' = [run EXCEPT ![r].pc = "insert", ![r].window = got.id]
    /\ UNCHANGED << corpus, sessions, messages, runsDone, snap, appended, now, env, errlog, completed >>

processLogEntry_insert(r) ==
    /\ run[r].pc = "insert"
    /\ env.store = "up"
    /\ messages' = insertMessage(messages, MessageOf(CurLine(r), run[r].window))
    /\ run' = [run EXCEPT ![r].pc = "stats"]
    /\ UNCHANGED << corpus, sessions, windows, runsDone, snap, appended, now, env, errlog, completed >>

processLogEntry_stats(r) ==
    /\ run[r].pc = "stats"
    /\ env.store = "up"
    /\ windows' = UpdateWindowStats(windows, messages, StatsTarget(run[r].window))
    /\ run' = [run EXCEPT ![r].pc = "tokens"]
    /\ UNCHANGED << corpus, sessions, messages, runsDone, snap, appended, now, env, errlog, completed >>

processLogEntry_tokens(r) ==
    /\ run[r].pc = "tokens"
    /\ env.store = "up"
    /\ sessions' = UpdateSessionTokens(sessions, messages, TokensTarget(CurLine(r)))
    /\ run' = [run EXCEPT ![r].pc = "scan", ![r].window = 0,
                          ![r].processedCount = @ + 1]
    /\ completed' = completed \cup { CurLine(r).uuid }
    /\ UNCHANGED << corpus, messages, windows, runsDone, snap, appended, now, env, errlog >>

\* the assistant appends a line to the last log file, once, between two sync runs
AppendLine(lines, maxLines) ==
    /\ InFlight = {}
    /\ runsDone >= 1
    /\ runsDone < MaxRuns
    /\ ~appended
    /\ TotalLines(corpus) < maxLines
    /\ \E l \in lines :
          corpus' = [corpus EXCEPT ![Len(corpus)].lines = Append(@, l)]
    /\ appended' = TRUE
    /\ UNCHANGED << sessions, messages, windows, run, runsDone, snap, now, env, errlog, completed >>

RunStep(r) ==
    \/ SyncAllLogs(r)
    \/ SyncReturn(r)
    \/ parseJSONLFile(r)
    \/ Scan(r)
    \/ processLogEntry_session(r)
    \/ processLogEntry_window(r)
    \/ processLogEntry_insert(r)
    \/ processLogEntry_stats(r)
    \/ processLogEntry_tokens(r)

-----------------------------------------------------------------------------
(* What a run can meet *)

ProcessSteps == { "session", "window", "insert", "stats", "tokens" }

\* a line of the error output: the run that printed it (by its start time), the
\* statement that failed, the file and line, and the ids parseJSONLFile prints
Report(r, what, line) ==
    [at |-> now, what |-> what, file |-> run[r].file, line |-> run[r].line,
     uuid |-> line.uuid, sessionId |-> line.sessionId]

\* SyncAllLogs_rootError as it would be if the error were printed, not returned
SyncAllLogs_rootErrorSwallowed(r) ==
    /\ run[r].pc = "idle"
    /\ runsDone + Cardinality(InFlight) < MaxRuns
    /\ env.root # "ok"
    /\ run' = [run EXCEPT ![r] = [IdleRun EXCEPT !.ret = "nil"]]
    /\ runsDone' = runsDone + 1
    /\ now' = now + 1
    /\ UNCHANGED << corpus, sessions, messages, windows, snap, appended, env, errlog, completed >>

\* the root directory is missing (os.Stat) or cannot be listed (os.ReadDir):
\* SyncAllLogs returns the error before it has touched a file or the store
SyncAllLogs_rootError(r) ==
    /\ run[r].pc = "idle"
    /\ runsDone + Cardinality(InFlight) < MaxRuns
    /\ env.root # "ok"
    /\ run' = [run EXCEPT ![r] = [IdleRun EXCEPT !.ret = "error"]]
    /\ runsDone' = runsDone + 1
    /\ now' = now + 1
    /\ UNCHANGED << corpus, sessions, messages, windows, snap, appended, env, errlog, completed >>

\* parseJSONLFile_openError as it would be if syncProjectLogs and SyncAllLogs
\* returned the error of the file
parseJSONLFile_openErrorAbort(r) ==
    /\ run[r].pc = "open"
    /\ run[r].file <= Len(corpus)
    /\ run[r].file \in env.noOpen
    /\ errlog' = errlog \cup { Report(r, "open", NoLine) }
    /\ run' = [run EXCEPT ![r] = [IdleRun EXCEPT !.ret = "error"]]
    /\ runsDone' = runsDone + 1
    /\ UNCHANGED << corpus, sessions, messages, windows, snap, appended, now, env, completed >>

\* os.Open fails: parseJSONLFile returns the error, syncProjectLogs prints it
\* and takes the next file
parseJSONLFile_openError(r) ==
    /\ run[r].pc = "open"
    /\ run[r].file <= Len(corpus)
    /\ run[r].file \in env.noOpen
    /\ errlog' = errlog \cup { Report(r, "open", NoLine) }
    /\ run' = [run EXCEPT ![r].file = @ + 1]
    /\ UNCHANGED << corpus, sessions, messages, windows, runsDone, snap, appended, now, env, completed >>

\* a read fails: scanner.Scan() returns false, the lines not yet read are left,
\* parseJSONLFile returns scanner.Err(), syncProjectLogs prints it and takes the
\* next file
Scan_readError(r) ==
    /\ run[r].pc = "scan"
    /\ run[r].file \in env.readFail
    /\ errlog' = errlog \cup { Report(r, "read", NoLine) }
    /\ run' = [run EXCEPT ![r].pc = "open", ![r].file = @ + 1]
    /\ UNCHANGED << corpus, sessions, messages, windows, runsDone, snap, appended, now, env, completed >>

\* processLogEntry_error as it would be if parseJSONLFile returned the error of
\* the entry and left the rest of the file
processLogEntry_errorEndsFile(r) ==
    /\ run[r].pc \in ProcessSteps
    /\ env.store = "down" \/ env.faults > 0
    /\ env' = IF env.store = "down" THEN env ELSE [env EXCEPT !.faults = @ - 1]
    /\ errlog' = errlog \cup { Report(r, run[r].pc, CurLine(r)) }
    /\ run' = [run EXCEPT ![r].pc = "open", ![r].file = @ + 1, ![r].window = 0]
    /\ UNCHANGED << corpus, sessions, messages, windows, runsDone, snap, appended, now, completed >>

\* the next line does not fit the scanner's buffer: scanner.Scan() returns
\* false, the line and the lines after it are left, parseJSONLFile returns
\* scanner.Err(), syncProjectLogs prints it and takes the next file
Scan_tooLong(r) ==
    /\ run[r].pc = "scan"
    /\ run[r].line < Len(corpus[run[r].file].lines)
    /\ TooLong(corpus[run[r].file].lines[run[r].line + 1])
    /\ errlog' = errlog \cup { Report(r, "toolong", NoLine) }
    /\ run' = [run EXCEPT ![r].pc = "open", ![r].file = @ + 1]
    /\ UNCHANGED << corpus, sessions, messages, windows, runsDone, snap, appended, now, env, completed >>

\* the statement of processLogEntry that follows each statement; after the last
\* one parseJSONLFile scans the next line
NextStatement ==
    [session |-> "window", window |-> "insert", insert |-> "stats",
     stats |-> "tokens", tokens |-> "scan"]

\* processLogEntry_error as it would be if the error were printed inside
\* processLogEntry and the statements after the failed one still ran
processLogEntry_errorGoesOn(r) ==
    /\ run[r].pc \in ProcessSteps
    /\ env.store = "down" \/ env.faults > 0
    /\ env' = IF env.store = "down" THEN env ELSE [env EXCEPT !.faults = @ - 1]
    /\ errlog' = errlog \cup { Report(r, run[r].pc, CurLine(r)) }
    /\ run' = [run EXCEPT ![r].pc = NextStatement[run[r].pc]]
    /\ UNCHANGED << corpus, sessions, messages, windows, runsDone, snap, appended, now, completed >>

\* processLogEntry_error as it would be if parseJSONLFile tried the failed
\* record again
processLogEntry_errorRetries(r) ==
    /\ run[r].pc \in ProcessSteps
    /\ env.store = "down" \/ env.faults > 0
    /\ env' = IF env.store = "down" THEN env ELSE [env EXCEPT !.faults = @ - 1]
    /\ errlog' = errlog \cup { Report(r, run[r].pc, CurLine(r)) }
    /\ run' = [run EXCEPT ![r].pc = "session", ![r].window = 0]
    /\ UNCHANGED << corpus, sessions, messages, windows, runsDone, snap, appended, now, completed >>

\* the statement processLogEntry has reached fails: processLogEntry returns the
\* error, parseJSONLFile prints it with the uuid and the session id of the entry
\* and goes on to the next line; processedCount is not incremented
processLogEntry_error(r) ==
    /\ run[r].pc \in ProcessSteps
    /\ env.store = "down" \/ env.faults > 0
    /\ env' = IF env.store = "down" THEN env ELSE [env EXCEPT !.faults = @ - 1]
    /\ errlog' = errlog \cup { Report(r, run[r].pc, CurLine(r)) }
    /\ run' = [run EXCEPT ![r].pc = "scan", ![r].window = 0]
    /\ UNCHANGED << corpus, sessions, messages, windows, runsDone, snap, appended, now, completed >>

\* the root directory is removed or made unreadable, between two runs
RootLost ==
    /\ InFlight = {}
    /\ runsDone >= 1
    /\ env.root = "ok"
    /\ \E x \in { "missing", "unreadable" } : env' = [env EXCEPT !.root = x]
    /\ UNCHANGED << corpus, sessions, messages, windows, run, runsDone, snap, appended, now, errlog, completed >>

\* the store can be reached again, between two runs
StoreRecovers ==
    /\ InFlight = {}
    /\ runsDone >= 1
    /\ env.store = "down"
    /\ env' = [env EXCEPT !.store = "up"]
    /\ UNCHANGED << corpus, sessions, messages, windows, run, runsDone, snap, appended, now, errlog, completed >>

\* the process is interrupted: the run ends where it stands and the store keeps
\* every statement that was executed
Interrupt(r) ==
    /\ run[r].pc # "idle"
    /\ env.crashes > 0
    /\ env' = [env EXCEPT !.crashes = @ - 1]
    /\ run' = [run EXCEPT ![r] = [IdleRun EXCEPT !.ret = "interrupted"]]
    /\ runsDone' = runsDone + 1
    /\ UNCHANGED << corpus, sessions, messages, windows, snap, appended, now, errlog, completed >>

FaultStep(r) ==
    \/ SyncAllLogs_rootError(r)
    \/ parseJSONLFile_openError(r)
    \/ Scan_readError(r)
    \/ processLogEntry_error(r)

-----------------------------------------------------------------------------
(* Specifications *)

\* one sync run at a time, over a single log file whose timestamps vary
Init == InitOver(TimeCorpora)

Next == RunStep(1) \/ AppendLine(TimeLines, MaxLines)

Spec == Init /\ [][Next]_vars

\* one sync run at a time, over two log files whose sessions vary
InitSession == InitOver(SessionCorpora)

NextSession == RunStep(1) \/ AppendLine(SessionLines, MaxSessionLines)

SpecSession == InitSession /\ [][NextSession]_vars

\* one sync run at a time, over a log file some lines of which lack a field
InitField == InitOver(FieldCorpora)

NextField == RunStep(1)

SpecField == InitField /\ [][NextField]_vars

\* one sync run at a time, interrupted at any statement and started again
InitCrash == InitIn(CrashCorpora, { [NoFaults EXCEPT !.crashes = MaxCrashes] })

NextCrash == RunStep(1) \/ Interrupt(1)

SpecCrash == InitCrash /\ [][NextCrash]_vars

\* one sync run at a time, over a line whose working directory varies
InitResolve == InitOver(ResolveCorpora)

NextResolve == RunStep(1)

SpecResolve == InitResolve /\ [][NextResolve]_vars

\* one sync run at a time, over a line with no working directory in a project
\* directory whose name varies
InitDir == InitOver(DirCorpora)

NextDir == RunStep(1)

SpecDir == InitDir /\ [][NextDir]_vars

\* one sync run at a time, over lines of up to 20 MB
InitLong == InitOver(LongCorpora)

NextLong == RunStep(1) \/ Scan_tooLong(1)

SpecLong == InitLong /\ [][NextLong]_vars

\* one sync run at a time, in an environment in which something fails
InitFault == InitIn(FaultCorpora, FaultEnvs)

NextFault == RunStep(1) \/ FaultStep(1) \/ RootLost \/ StoreRecovers

SpecFault == InitFault /\ [][NextFault]_vars

\* one sync run at a time over a corpus with lines that do not decode, in an
\* environment in which several things fail; a run that has started goes on to
\* its next statement
InitMixed == InitIn(MixedCorpora, MixedEnvs)

NextMixed == RunStep(1) \/ FaultStep(1)

SpecMixed == InitMixed /\ [][NextMixed]_vars /\ WF_vars(NextMixed)

\* two resync requests served at once: SyncAllLogs takes no lock
InitConc == InitOver(ConcCorpora)

NextConc == RunStep(1) \/ RunStep(2)

SpecConc == InitConc /\ [][NextConc]_vars

-----------------------------------------------------------------------------
(* Properties *)

Quiet == runsDone >= 1 /\ InFlight = {}

MessagesOf(windowID) == { m \in messages : m.session_window_id = windowID }

\* C1: a second resync over an unchanged corpus leaves the store as the first
\* run left it: the same sessions, windows and messages, with the same
\* assignment of messages to windows and the same aggregates (created_at, which
\* every write of a message sets anew, is not compared).
C1_ResyncIdempotent ==
    (runsDone >= 2 /\ InFlight = {} /\ ~appended) =>
        { WithoutWriteTime(st) : st \in snap } = { WithoutWriteTime(Store) }

\* C2: any two distinct stored windows have disjoint [start, end) intervals, and
\* every stored window is exactly five hours long, whatever the order the
\* timestamps arrive in.
C2_WindowsDisjoint ==
    /\ \A w \in windows : w.window_end - w.window_start = WindowLen
    /\ \A w, v \in windows :
          w.id # v.id => (w.window_end <= v.window_start \/ v.window_end <= w.window_start)

\* C3: once a run has completed, exactly one stored window holds the timestamp
\* of each stored message.
C3_ExactlyOneWindow ==
    Quiet => \A m \in messages : Cardinality(Containing(windows, m.timestamp)) = 1

\* C4: right after processLogEntry has refreshed the statistics of a window, the
\* window's total_tokens is the sum of input_tokens + output_tokens of the
\* messages assigned to it and its message_count is their number.
C4_StatsAfterRecompute ==
    [][ \A r \in RunIds :
          (run[r].pc = "stats" /\ run'[r].pc = "tokens") =>
              \E w \in windows' :
                  /\ w.id = run[r].window
                  /\ w.total_tokens = SumTokens({ m \in messages' : m.session_window_id = w.id })
                  /\ w.message_count = Cardinality({ m \in messages' : m.session_window_id = w.id })
      ]_vars

\* a window refreshed with two messages of different sizes in it
C4_Witness ==
    \E r \in RunIds : \E w \in windows :
        /\ run[r].pc = "tokens"
        /\ w.id = run[r].window
        /\ w.message_count = 2
        /\ w.total_tokens = 175

ValidLines(ls) == { i \in 1..Len(ls) : ls[i].kind = "entry" }

MalformedLines(ls) == { i \in 1..Len(ls) : ls[i].kind = "bad" }

\* C5: when a file is finished, one parse failure has been reported per malformed
\* line and every valid line has been processed, wherever the malformed lines
\* stand: processedCount is N, the failures are M, every valid line's message is
\* stored, and the file leaves one message per uuid (N messages when each valid
\* line has a uuid of its own).
C5_MalformedLineResilience ==
    \A r \in RunIds :
        (run[r].pc = "open" /\ run[r].file > 1) =>
            LET ls == corpus[run[r].file - 1].lines
                uuids == { ls[i].uuid : i \in ValidLines(ls) }
            IN  /\ run[r].parseErrors = Cardinality(MalformedLines(ls))
                /\ run[r].processedCount = Cardinality(ValidLines(ls))
                /\ Cardinality({ m \in messages : m.id \in uuids }) = Cardinality(uuids)
                /\ (Cardinality(uuids) = Cardinality(ValidLines(ls)) /\ Len(corpus) = 1)
                      => Cardinality(messages) = Cardinality(ValidLines(ls))

\* a finished file in which a valid line with its own uuid follows a malformed one
C5_Witness ==
    \E r \in RunIds :
        /\ run[r].pc = "open" /\ run[r].file > 1
        /\ LET ls == corpus[run[r].file - 1].lines
           IN  /\ \E i, j \in 1..Len(ls) :
                      i < j /\ ls[i].kind = "bad" /\ ls[j].kind = "entry"
               /\ Cardinality(ValidLines(ls)) = 2
               /\ Cardinality(messages) = 2

C6Corpus ==
    << File(DirProj, << Entry("m1", "s1", CwdBackend, 0, 100, 50),
                        Entry("m2", "s1", EmptyStr, 1, 20, 5) >>) >>

\* C6: the two lines of session s1 (cwd /home/u/proj/backend at T with 100/50,
\* no cwd at T + 10 min with 20/5), synced into an empty store, leave one
\* session s1 with total_tokens 175 and one window [T, T + 5h) with
\* message_count 2 and total_tokens 175.
C6_EndToEnd ==
    (corpus = C6Corpus /\ Quiet /\ ~appended) =>
        /\ Cardinality(sessions) = 1
        /\ \A s \in sessions : s.id = "s1" /\ s.total_tokens = 175
        /\ Cardinality(windows) = 1
        /\ \A w \in windows :
              /\ w.window_start = 0
              /\ w.window_end = 0 + WindowLen
              /\ w.message_count = 2
              /\ w.total_tokens = 175

C6_Witness == corpus = C6Corpus /\ Quiet /\ ~appended /\ Cardinality(messages) = 2

\* C7: syncing a corpus and syncing again after lines were appended leaves a
\* store that one sync of the whole corpus into an empty store leaves.
C7_IncrementalConvergence ==
    (runsDone >= 2 /\ InFlight = {} /\ appended) =>
        WithoutWriteTime(Store) \in
            { WithoutWriteTime(st) : st \in SyncOutcomes({ EmptyStore }, corpus) }

\* C8: the first entry of a session id creates its row with status active and
\* start time the entry's timestamp; no later step changes the project name or
\* the project path of a stored session, and no session id has two rows.
C8_FirstWriteWins ==
    [][ /\ \A s \in sessions : \E t \in sessions' :
              /\ t.id = s.id
              /\ t.project_name = s.project_name
              /\ t.project_path = s.project_path
        /\ \A t, u \in sessions' : t.id = u.id => t = u
        /\ \A r \in RunIds :
              ( /\ run[r].pc = "session" /\ run'[r].pc = "window"
                /\ \A s \in sessions : s.id # CurLine(r).sessionId ) =>
                  \E t \in sessions' :
                      /\ t.id = CurLine(r).sessionId
                      /\ t.status = "active"
                      /\ t.start_time = CurLine(r).timestamp
      ]_vars

\* a session that has taken an entry resolving to another project name and path
C8_Witness ==
    \E r \in RunIds : \E s \in sessions :
        /\ run[r].pc = "window"
        /\ s.id = CurLine(r).sessionId
        /\ s.project_name # actualProjectName(CurLine(r), CurDir(r))
        /\ s.project_path # actualProjectPath(CurLine(r), CurDir(r))

\* C9: at every moment at most one sync run is inside SyncAllLogs.
C9_MutualExclusion == Cardinality(InFlight) <= 1

\* C10: whatever the interleaving of two sync runs over the same file, the store
\* they leave is the store a single run leaves.
C10_DoubleProcessingHarmless ==
    (runsDone >= 2 /\ InFlight = {}) =>
        WithoutWriteTime(Store) \in
            { WithoutWriteTime(st) : st \in SyncOutcomes({ EmptyStore }, corpus) }

-----------------------------------------------------------------------------
(* Sync state *)

\* the file has the sync-state record section 4.1 of the specification gives it:
\* a run has processed it to its end without an error, and the file is as it was
\* then (its size, which is its fingerprint, changes when a line is appended)
UpToDate(f) == runsDone >= 1 /\ errlog = {} /\ ~(appended /\ f = Len(corpus))

\* C11: a sync run skips a file whose fingerprint equals the stored one: it does
\* not open it, parses none of its lines and writes no message again (a file
\* with no record or another fingerprint is processed).
C11_UnchangedFileSkipped ==
    [][ \A r \in RunIds :
          (run[r].pc # "idle" /\ run[r].file \in 1..Len(corpus) /\ UpToDate(run[r].file)) =>
              /\ run'[r].pc \notin { "scan", "session", "window", "insert", "stats", "tokens" }
              /\ messages' = messages
      ]_vars

-----------------------------------------------------------------------------
(* Errors *)

\* the reports of store statements that failed in the run that started at t
StoreReports(t) == { e \in errlog : e.at = t /\ e.what \in ProcessSteps }

\* the latest run has returned nil and the store took every statement of it
CleanRunDone ==
    /\ InFlight = {}
    /\ \E r \in RunIds : run[r].ret = "nil"
    /\ StoreReports(now) = {}

\* C13: an entry whose processing failed is not taken up again in the same run
\* (processLogEntry starts only on the line after the one the scanner has left),
\* and once a later run in which the store takes every statement has
\* returned, the message of every entry that failed in an earlier run is stored,
\* written by that later run.
C13_FailedRecordRetriedNextRun ==
    [][ /\ \A r \in RunIds :
              run'[r].pc = "session" =>
                  /\ run[r].pc = "scan"
                  /\ run'[r].file = run[r].file
                  /\ run'[r].line = run[r].line + 1
        /\ CleanRunDone' =>
              \A e \in errlog' :
                  (e.what \in ProcessSteps /\ e.at < now') =>
                      \E m \in messages' : m.id = e.uuid /\ m.created_at = now'
      ]_vars

\* a run has returned without an error of the store, and wrote the message of an
\* entry whose message an earlier run failed to write
C13_Witness ==
    /\ CleanRunDone
    /\ \E e \in errlog :
          /\ e.what = "insert" /\ e.at < now
          /\ \E m \in messages : m.id = e.uuid /\ m.created_at = now

\* C14: a SyncAllLogs call that finds the root directory missing or unreadable
\* returns an error, and the sessions, messages and windows stored are what they
\* were before the call.
C14_RootErrorLeavesStore ==
    [][ \A r \in RunIds :
          (env.root # "ok" /\ run'[r] # run[r]) =>
              /\ run'[r].pc = "idle"
              /\ run'[r].ret = "error"
              /\ sessions' = sessions
              /\ messages' = messages
              /\ windows' = windows
      ]_vars

\* a call has returned the error of the root directory over a store that an
\* earlier run has filled
C14_Witness ==
    /\ env.root # "ok"
    /\ \E r \in RunIds : run[r].pc = "idle" /\ run[r].ret = "error"
    /\ sessions # {} /\ messages # {} /\ windows # {}

\* the files of the corpus that can be opened and read to their end
Readable == { f \in 1..Len(corpus) : f \notin env.noOpen \cup env.readFail }

\* the message of every entry of the file is stored as the latest run wrote it
WrittenNow(f) ==
    \A i \in ValidLines(corpus[f].lines) :
        \E m \in messages : m.id = corpus[f].lines[i].uuid /\ m.created_at = now

\* C15: when a file cannot be opened or read, the run goes on to the next file
\* without returning, and the run that ends has processed every entry of every
\* other file, of the same project directory and of the others, and returns nil.
C15_FileErrorIsolated ==
    [][ /\ \A r \in RunIds :
              ( /\ run'[r] # run[r]
                /\ \E e \in errlog' \ errlog : e.what \in { "open", "read" } ) =>
                  /\ run'[r].pc = "open"
                  /\ run'[r].file = run[r].file + 1
                  /\ run'[r].ret = "none"
        /\ \A r \in RunIds :
              (run[r].pc # "idle" /\ run'[r].pc = "idle" /\ StoreReports(now) = {}) =>
                  /\ run'[r].ret = "nil"
                  /\ \A f \in Readable : WrittenNow(f)'
      ]_vars

\* a run has returned nil after its first file could not be opened or read, and
\* has stored an entry of the next file of the same directory and an entry of a
\* file of another directory
C15_Witness ==
    /\ CleanRunDone
    /\ \E e \in errlog : e.at = now /\ e.what \in { "open", "read" } /\ e.file = 1
    /\ \E f, g \in Readable :
          /\ corpus[f].dir = corpus[1].dir
          /\ corpus[g].dir # corpus[1].dir
          /\ ValidLines(corpus[f].lines) # {} /\ WrittenNow(f)
          /\ ValidLines(corpus[g].lines) # {} /\ WrittenNow(g)

\* the lines of file f whose entry the run that started at t reported as failed
FailedLines(t, f) == { e.line : e \in { x \in StoreReports(t) : x.file = f } }

\* C16: a store statement of processLogEntry that fails, whichever of the five
\* it is, leaves the run in the same file at the same line, ready to scan the
\* next one, with processedCount as it was; and when the scanner reaches the end
\* of a file, every entry of it that was not reported as failed has its message
\* written and processedCount is the number of those entries.
C16_RecordErrorIsolated ==
    [][ \A r \in RunIds :
          /\ ( /\ run[r].pc \in ProcessSteps
               /\ \E e \in errlog' \ errlog : e.what = run[r].pc ) =>
                  /\ run'[r].pc = "scan"
                  /\ run'[r].file = run[r].file
                  /\ run'[r].line = run[r].line
                  /\ run'[r].processedCount = run[r].processedCount
          /\ ( /\ run[r].pc = "scan" /\ run'[r].pc = "open"
               /\ run[r].file \notin env.readFail ) =>
                  LET f == run[r].file
                      ok == ValidLines(corpus[f].lines) \ FailedLines(now, f)
                  IN  /\ run[r].processedCount = Cardinality(ok)
                      /\ \A i \in ok :
                            \E m \in messages :
                                m.id = corpus[f].lines[i].uuid /\ m.created_at = now
      ]_vars

\* the end of a file of two entries: the first failed at the recompute of the
\* window statistics, the second was processed and counted
C16_Witness ==
    \E r \in RunIds :
        /\ run[r].pc = "open" /\ run[r].file > 1
        /\ run[r].processedCount = 1
        /\ LET f == run[r].file - 1
           IN  /\ ValidLines(corpus[f].lines) = { 1, 2 }
               /\ \E e \in StoreReports(now) :
                     e.file = f /\ e.line = 1 /\ e.what = "stats"
               /\ \E m \in messages :
                     m.id = corpus[f].lines[2].uuid /\ m.created_at = now

\* C17: once a statement has failed because the store cannot be reached, the run
\* has stopped (it scans no further line and opens no further file) and its
\* SyncAllLogs call has returned an error.
C17_StoreDownAborts ==
    (env.store = "down" /\ StoreReports(now) # {}) =>
        \A r \in RunIds : run[r].pc = "idle" /\ run[r].ret = "error"

\* the line decodes but lacks the unique id, the session id or the timestamp
Incomplete(line) ==
    /\ line.kind = "entry"
    /\ line.uuid = "" \/ line.sessionId = "" \/ line.timestamp = ZeroTime

\* C18: a line that decodes but lacks a required field is skipped: while the
\* run is at such a line no session, window or message is created or updated,
\* and the line is not counted in processedCount.
C18_IncompleteLineSkipped ==
    [][ \A r \in RunIds :
          (run[r].pc \in ProcessSteps /\ Incomplete(CurLine(r))) =>
              /\ sessions' = sessions
              /\ messages' = messages
              /\ windows' = windows
              /\ run'[r].processedCount = run[r].processedCount
      ]_vars

-----------------------------------------------------------------------------
(* Interruption *)

\* the aggregates (total, count) are those of a set of the stored messages ms
\* that holds every message of ms whose processing has completed
Accounts(total, count, ms) ==
    \E X \in SUBSET ms :
        /\ { m \in ms : m.id \in completed } \subseteq X
        /\ total = SumTokens(X)
        /\ count = Cardinality(X)

\* C19: in every state, and so wherever ingestion is interrupted, each message
\* whose processing has completed is stored, and the stored aggregates of its
\* session and of the window it is assigned to count every completed message
\* of that session and of that window.
C19_InterruptedConsistent ==
    \A u \in completed :
        \E m \in messages :
            /\ m.id = u
            /\ \E s \in sessions :
                  /\ s.id = m.session_id
                  /\ Accounts(s.total_tokens, s.message_count,
                              { x \in messages : x.session_id = s.id })
            /\ \E w \in windows :
                  /\ w.id = m.session_window_id
                  /\ Accounts(w.total_tokens, w.message_count, MessagesOf(w.id))

-----------------------------------------------------------------------------
(* Project resolution *)

GenericNames == { Str("frontend"), Str("backend"), Str("src"), Str("lib") }

\* the directory names on the way to the working directory, outermost first: the
\* components of the cleaned path but for the empty one, "." and ".."
NamesOf(cwd) ==
    SelectSeq(Split(Clean(cwd), "/"),
              LAMBDA c : c # EmptyStr /\ c # Str(".") /\ c # Str(".."))

\* the name the specification gives a path of these names
ResolvedName(names) ==
    LET deepest == names[Len(names)]
        others == { j \in 1..(Len(names) - 1) : names[j] \notin GenericNames }
    IN  IF deepest \notin GenericNames \/ others = {}
        THEN deepest
        ELSE names[CHOOSE j \in others : \A k \in others : k <= j]

\* C20: the session created from an entry with a working directory has the
\* working directory verbatim as its project path, and as its project name the
\* deepest directory name of the path if that is not one of frontend, backend,
\* src, lib, else the nearest ancestor that is not one of them, else (all are)
\* the deepest name; /home/u/code/myproj/backend is named myproj.
C20_ProjectResolution ==
    \A s \in sessions :
        LET cwd == corpus[1].lines[1].cwd
        IN  /\ s.project_path = cwd
            /\ NamesOf(cwd) # << >> => s.project_name = ResolvedName(NamesOf(cwd))
            /\ cwd = CwdExample => s.project_name = Str("myproj")

\* the session of the entry written in /home/u/code/myproj/backend is named
\* after the parent of the generic directory
C20_Witness ==
    \E s \in sessions :
        /\ corpus[1].lines[1].cwd = CwdExample
        /\ s.project_path = CwdExample
        /\ s.project_name = Str("myproj")

\* the string with every "-" turned into "/"
RECURSIVE Slashed(_)
Slashed(str) ==
    IF str = << >> THEN << >>
    ELSE << IF Head(str) = "-" THEN "/" ELSE Head(str) >> \o Slashed(Tail(str))

\* C21: the session created from an entry without a working directory, found
\* in the project directory named D, has D as its project name, and as its
\* project path "/" followed by D without its first character with every "-"
\* turned into "/" when D starts with "-", and D itself when it does not.
C21_DirectoryNameFallback ==
    \A s \in sessions :
        LET D == corpus[1].dir
        IN  /\ s.project_name = D
            /\ D[1] = "-" => s.project_path = << "/" >> \o Slashed(SubSeq(D, 2, Len(D)))
            /\ D[1] # "-" => s.project_path = D

\* the session of an entry found in the directory -home- has the path /home/
C21_Witness ==
    \E s \in sessions :
        /\ corpus[1].dir = << "-", "home", "-" >>
        /\ s.project_name = << "-", "home", "-" >>
        /\ s.project_path = << "/", "home", "/" >>

-----------------------------------------------------------------------------
(* Long lines *)

\* C22: when a run has returned, the message of every valid line of every file
\* is stored, whatever the length of the line (20 MB for one) and whatever the
\* length of the lines before it: a long line is ingested and does not end the
\* processing of its file.
C22_LongLineIngested ==
    (InFlight = {} /\ \E r \in RunIds : run[r].ret = "nil") =>
        \A f \in 1..Len(corpus) : \A i \in ValidLines(corpus[f].lines) :
            \E m \in messages : m.id = corpus[f].lines[i].uuid

-----------------------------------------------------------------------------
(* Windows *)

\* the window but for its is_active flag
Inactive(w) == [w EXCEPT !.is_active = FALSE]

\* C23: the window assignment for a timestamp t returns a stored window whose
\* [start, end) holds t, and then creates and changes no window; when no stored
\* window holds t it creates exactly one window, with start t, end t + 5h,
\* reset_time = end and is_active true, returns it, and changes no other window
\* but for the active window it sets inactive: that happens when a single
\* window was active and had ended by t, and to no window that ends after t.
C23_WindowAssignment ==
    [][ \A r \in RunIds :
          (run[r].pc = "window" /\ run'[r].pc = "insert") =>
              LET t == CurLine(r).timestamp
                  holding == { w \in windows : w.window_start <= t /\ t < w.window_end }
                  active == { w \in windows : w.is_active }
              IN  IF holding # {}
                  THEN /\ windows' = windows
                       /\ run'[r].window \in { w.id : w \in holding }
                  ELSE \E new \in windows' :
                          /\ new.window_start = t
                          /\ new.window_end = t + WindowLen
                          /\ new.reset_time = new.window_end
                          /\ new.is_active
                          /\ new.id = run'[r].window
                          /\ \A w \in windows : w.id # new.id
                          /\ Cardinality(windows') = Cardinality(windows) + 1
                          /\ \A w \in windows : w \in windows' \/ Inactive(w) \in windows'
                          /\ \A w \in windows : w.window_end > t => w \in windows'
                          /\ \A w \in active :
                                (active = { w } /\ w.window_end <= t) => w \notin windows'
      ]_vars

\* the assignment has created a second window and set the first one, which had
\* ended, inactive
C23_Witness ==
    \E r \in RunIds :
        /\ run[r].pc = "insert"
        /\ run[r].window = 2
        /\ \E w, v \in windows :
              /\ w.id = 1 /\ ~w.is_active /\ w.window_end <= v.window_start
              /\ v.id = 2 /\ v.is_active /\ v.message_count = 0

\* C24: every stored message is assigned to a stored window whose [start, end)
\* holds the message's timestamp; and an entry whose timestamp is held only by
\* windows that are no longer active is assigned to one of them: no window is
\* created for it and the active window is not used.
C24_AssignedWindowContains ==
    [][ /\ \A m \in messages' :
              \E w \in windows' :
                  /\ w.id = m.session_window_id
                  /\ w.window_start <= m.timestamp /\ m.timestamp < w.window_end
        /\ \A r \in RunIds :
              LET holding == Containing(windows, CurLine(r).timestamp)
              IN  ( /\ run[r].pc = "window" /\ run'[r].pc = "insert"
                    /\ holding # {}
                    /\ \A w \in holding : ~w.is_active ) =>
                      /\ windows' = windows
                      /\ run'[r].window \in { w.id : w \in holding }
      ]_vars

\* a late message has been written into the window that holds its timestamp,
\* which a later window had already made inactive
C24_Witness ==
    \E r \in RunIds : \E w, v \in windows : \E m \in messages :
        /\ run[r].pc = "stats"
        /\ w.id = run[r].window /\ ~w.is_active
        /\ v.is_active /\ v.window_start >= w.window_end
        /\ m.id = CurLine(r).uuid /\ m.session_window_id = w.id
        /\ m.timestamp < v.window_start
        /\ Cardinality(windows) = 2

\* C25: at most one stored window is active, and the active window is the one
\* with the latest start, in whatever order the timestamps were assigned.
C25_SingleActiveLatest ==
    /\ Cardinality({ w \in windows : w.is_active }) <= 1
    /\ \A w \in windows :
          w.is_active => \A v \in windows : v.window_start <= w.window_start

\* C26: no step changes the start, the end or the reset_time of a stored window
\* or removes a window, and no step leaves two windows with one id: a window
\* is never deleted, merged or split, only its aggregates and its is_active
\* flag change.
C26_WindowBoundsFrozen ==
    [][ /\ \A w \in windows :
              \E v \in windows' :
                  /\ v.id = w.id
                  /\ v.window_start = w.window_start
                  /\ v.window_end = w.window_end
                  /\ v.reset_time = w.reset_time
        /\ \A v, u \in windows' : v.id = u.id => v = u
      ]_vars

\* during a resync, a window that a later window has made inactive has had its
\* aggregates refreshed
C26_Witness ==
    \E r \in RunIds : \E w \in windows :
        /\ runsDone >= 1
        /\ run[r].pc = "tokens"
        /\ w.id = run[r].window
        /\ ~w.is_active
        /\ w.message_count >= 1

\* C27: the message write is an overwrite keyed by id: there is never more than
\* one stored message per id, and a write of an entry whose id is already
\* stored leaves the number of stored messages unchanged and leaves, under that
\* id, the row built from the entry being written.
C27_MessageOverwrite ==
    [][ /\ \A m, n \in messages' : m.id = n.id => m = n
        /\ \A r \in RunIds :
              LET message == MessageOf(CurLine(r), run[r].window)
              IN  ( /\ run[r].pc = "insert"
                    /\ run'[r].pc = "stats"
                    /\ \E m \in messages : m.id = message.id )
                  => /\ Cardinality(messages') = Cardinality(messages)
                     /\ (message @@ [created_at |-> now]) \in messages'
      ]_vars

\* a resync has just written again a message that an earlier write had stored
C27_Witness ==
    \E r \in RunIds : \E m \in messages :
        /\ runsDone >= 1
        /\ run[r].pc = "stats"
        /\ CurLine(r).uuid \in completed
        /\ m.id = CurLine(r).uuid
        /\ m.created_at = now
        /\ m.timestamp = CurLine(r).timestamp

\* C28: the statements of a record run in the order session upsert, window
\* assignment, message write, window statistics, session counters, each
\* writing its own table only; a statement that fails is reported, writes
\* nothing and sends the run to the next line with none of the later
\* statements run; and every stored message references a stored session and a
\* stored window.
C28_StepOrder ==
    [][ /\ \A r \in RunIds :
              (run[r].pc \in ProcessSteps /\ run'[r] # run[r])
              => \/ /\ errlog' = errlog
                    /\ run'[r].pc = NextStatement[run[r].pc]
                    /\ run[r].pc \notin { "session", "tokens" } => sessions' = sessions
                    /\ run[r].pc \notin { "window", "stats" } => windows' = windows
                    /\ run[r].pc # "insert" => messages' = messages
                 \/ /\ errlog' # errlog
                    /\ run'[r].pc = "scan"
                    /\ Store' = Store
        /\ \A r \in RunIds :
              (run'[r].pc \in ProcessSteps /\ run[r].pc \notin ProcessSteps)
              => run[r].pc = "scan" /\ run'[r].pc = "session"
        /\ \A m \in messages' :
              /\ \E s \in sessions' : s.id = m.session_id
              /\ \E w \in windows' : w.id = m.session_window_id
      ]_vars

\* the message write of a record failed in this run: its session and a window
\* are stored, its message is not, and the message of another record is
C28_Witness ==
    \E e \in errlog :
        /\ e.what = "insert"
        /\ e.at = now
        /\ \E s \in sessions : s.id = e.sessionId
        /\ windows # {}
        /\ \A m \in messages : m.id # e.uuid
        /\ messages # {}

\* how far a run is within its file: nothing read yet, or the line it has read
\* and the statement it has reached on that line
StatementRank ==
    [open |-> 0, session |-> 1, window |-> 2, insert |-> 3, stats |-> 4,
     tokens |-> 5, scan |-> 6]

\* position b is further in the corpus than position a
Further(a, b) ==
    \/ b.file > a.file
    \/ /\ b.file = a.file
       /\ a.pc = "open" /\ b.pc # "open"
    \/ /\ b.file = a.file
       /\ a.pc # "open" /\ b.pc # "open"
       /\ \/ b.line > a.line
          \/ b.line = a.line /\ StatementRank[b.pc] > StatementRank[a.pc]

\* C29: a sync run that has started returns, whatever lines do not decode,
\* files cannot be opened or read and store statements fail; and every step of
\* the run moves it further in the corpus, never past the end of a file or one
\* file past the last, so that it takes each directory, file and line at most
\* once.
C29_SyncTerminates ==
    /\ \A r \in RunIds : (run[r].pc # "idle") ~> (run[r].pc = "idle")
    /\ [][ \A r \in RunIds :
              (run[r].pc # "idle" /\ run'[r].pc # "idle" /\ run'[r] # run[r])
              => /\ Further(run[r], run'[r])
                 /\ run'[r].file <= Len(corpus) + 1
                 /\ run'[r].pc # "open" => run'[r].line <= Len(corpus[run'[r].file].lines)
          ]_vars

\* a run has returned nil after it met a file it could not open, a file it
\* could not read to its end and a store statement that failed
C29_Witness ==
    /\ run[1].pc = "idle"
    /\ run[1].ret = "nil"
    /\ runsDone >= 1
    /\ \E e \in errlog : e.what = "open"
    /\ \E e \in errlog : e.what = "read"
    /\ \E e \in errlog : e.what \in ProcessSteps

\* C30: once a run in which the store took every statement has returned, every
\* stored window, and not only the window of the message written last, has the
\* message_count and the total_tokens of the messages that are assigned to it;
\* a window that a written-again message has left does not count it any more.
C30_EveryWindowAccurate ==
    (Quiet /\ errlog = {}) =>
        \A w \in windows :
            /\ w.message_count = Cardinality(MessagesOf(w.id))
            /\ w.total_tokens = SumTokens(MessagesOf(w.id))

\* C31: once a run in which the store took every statement has returned, every
\* stored session has the message_count and the total_tokens of the stored
\* messages that carry its id; a session that a written-again message has left
\* for another session id does not count it any more.
C31_EverySessionAccurate ==
    (Quiet /\ errlog = {}) =>
        \A s \in sessions :
            LET mine == { m \in messages : m.session_id = s.id }
            IN  /\ s.message_count = Cardinality(mine)
                /\ s.total_tokens = SumTokens(mine)

=============================================================================
